---- MODULE Spec2Model ----
(***************************************************************************)
(* mucalc: the expression evaluation front-end and session driver of       *)
(* src/mucalc.cpp (argument mode, stream mode, interactive mode, the       *)
(* implicit variable store, the diagnostic fix-up and the readline         *)
(* completion generator).                                                  *)
(*                                                                         *)
(* Text (names, tokens, lines, marker lines) is a sequence of one-character*)
(* strings.  A double is an integer counting units of 1e-4, so 5.0 is      *)
(* 50000 and the constants e and pi are 27183 and 31416.                   *)
(***************************************************************************)
EXTENDS Integers, Sequences, FiniteSets, TLC

(* ------------------------------ bounds -------------------------------- *)

\* largest number of expression arguments (argc - 1) in argument mode
MaxArgs == 2
\* largest number of lines the input delivers in stream and interactive mode
MaxLines == 2
\* largest raw error offset the engine reports
MaxPos == 3
\* largest number of blanks in front of a line's text
MaxBlanks == 1

(* ------------------------------ tables -------------------------------- *)

e == 27183
pi == 31416

constant_names ==
    << <<"p","i">>, <<"e">> >>

function_names ==
    <<
       <<"d","e","g">>, <<"r","a","d">>,
       <<"s","i","n">>, <<"a","s","i","n">>, <<"c","o","s">>, <<"a","c","o","s">>, <<"t","a","n">>, <<"a","t","a","n">>, <<"a","t","a","n","2">>,
       <<"s","i","n","h">>, <<"a","s","i","n","h">>, <<"c","o","s","h">>, <<"a","c","o","s","h">>, <<"t","a","n","h">>, <<"a","t","a","n","h">>,
       <<"p","o","w">>, <<"e","x","p">>, <<"e","x","p","2">>, <<"e","x","p","1","0">>, <<"l","o","g">>, <<"l","n">>, <<"l","o","g","2">>, <<"l","o","g","1","0">>,
       <<"s","q","r","t">>, <<"c","b","r","t">>, <<"a","b","s">>, <<"s","i","g","n">>,
       <<"f","r","a","c","t">>, <<"i","n","t">>, <<"c","e","i","l">>, <<"f","l","o","o","r">>, <<"r","o","u","n","d">>, <<"r","i","n","t">>, <<"t","r","u","n","c">>,
       <<"m","i","n">>, <<"m","a","x">>, <<"s","u","m">>, <<"a","v","g">>, <<"m","e","d">>,
       <<"c","l","a","m","p">>, <<"s","t","e","p">>, <<"s","m","o","o","t","h","s","t","e","p">>, <<"m","i","x">>,
       <<"s","e","e","d">>, <<"r","a","n","d","o","m">>, <<"g","a","u","s","s","i","a","n">>
    >>

\* functions registered by main() with DefineFun
DefinedFuns ==
    {
       <<"d","e","g">>, <<"r","a","d">>, <<"a","t","a","n","2">>, <<"f","r","a","c","t">>, <<"p","o","w">>, <<"e","x","p","2">>, <<"c","b","r","t">>, <<"i","n","t">>,
       <<"c","e","i","l">>, <<"f","l","o","o","r">>, <<"r","o","u","n","d">>, <<"t","r","u","n","c">>, <<"m","e","d">>, <<"c","l","a","m","p">>, <<"s","t","e","p">>,
       <<"s","m","o","o","t","h","s","t","e","p">>, <<"m","i","x">>, <<"s","e","e","d">>, <<"r","a","n","d","o","m">>, <<"g","a","u","s","s","i","a","n">>
    }

\* functions a freshly constructed mu::Parser already knows
BuiltinFuns ==
    {
       <<"s","i","n">>, <<"c","o","s">>, <<"t","a","n">>, <<"a","s","i","n">>, <<"a","c","o","s">>, <<"a","t","a","n">>, <<"a","t","a","n","2">>,
       <<"s","i","n","h">>, <<"c","o","s","h">>, <<"t","a","n","h">>, <<"a","s","i","n","h">>, <<"a","c","o","s","h">>, <<"a","t","a","n","h">>,
       <<"l","o","g","2">>, <<"l","o","g","1","0">>, <<"l","o","g">>, <<"l","n">>, <<"e","x","p">>, <<"s","q","r","t">>, <<"s","i","g","n">>, <<"r","i","n","t">>, <<"a","b","s">>,
       <<"s","u","m">>, <<"a","v","g">>, <<"m","i","n">>, <<"m","a","x">>
    }

\* the parser's function table once main() has initialised it
ParserFuns == BuiltinFuns \cup DefinedFuns

\* the parser's constant table after ClearConst and the two DefineConst calls
ParserConsts == { <<"e">>, <<"p","i">> }

ConstValue(name) == IF name = <<"e">> THEN e ELSE pi

\* the reserved variable bound to last_result by DefineVar
LastResultName == <<"_">>

(* ------------------------------- text ---------------------------------- *)

\* std::string(n, ' ')
Blanks(n) == [j \in 1..n |-> " "]

\* string_line.find_first_not_of(' '): the 1-based index, 0 for npos
FindFirstNotOf(s) ==
    IF \E j \in 1..Len(s) : s[j] # " "
    THEN CHOOSE j \in 1..Len(s) : s[j] # " " /\ \A l \in 1..(j-1) : s[l] = " "
    ELSE 0

\* string_line.find_last_not_of(' '): the 1-based index, 0 for npos
FindLastNotOf(s) ==
    IF \E j \in 1..Len(s) : s[j] # " "
    THEN CHOOSE j \in 1..Len(s) : s[j] # " " /\ \A l \in (j+1)..Len(s) : s[l] = " "
    ELSE 0

\* trimmed_line as main() computes it from string_line
Trim(s) ==
    IF FindFirstNotOf(s) # 0
    THEN SubSeq(s, FindFirstNotOf(s), FindLastNotOf(s))
    ELSE <<>>

\* a comparison that stops at the end of the shorter text
StrncmpEq_shorter(name, text, len) ==
    \A j \in 1..(IF Len(name) < len THEN Len(name) ELSE len) : name[j] = text[j]

\* strncmp(name, text, len) == 0 with len = strlen(text): the first len
\* characters agree, and name does not end before them
StrncmpEq(name, text, len) ==
    /\ Len(name) >= len
    /\ \A j \in 1..len : name[j] = text[j]

(* ------------------------- expressions (input) ------------------------- *)

\* identifiers the input expressions mention
IdentPool ==
    { <<"_">>, <<"p","i">>, <<"s","i","n">>, <<"e","x","p","1","0">>,
      <<"a">>, <<"s","1">> }

\* words the interactive loop compares the trimmed line with
HelpWords == { <<"h","e","l","p">>, <<"?">> }
QuitWords == { <<"q","u","i","t">>, <<"e","x","i","t">> }

\* numeric literals of the input; 5.0 and 7.0
Lits == {50000, 70000}

LitText(c) == IF c = 50000 THEN <<"5">> ELSE <<"7">>

\* An expression is one of a few shapes of text:
\*   none    (no text)            lit     c             ref   n
\*   asg     n=c                  call    n(c)          pair  c,n=d
\*   bad     n+   (ends early)    bad2    n=c,m+        opaque  any other text
\*   word    a help or quit word
Body(k, n, m, c, d) == [k |-> k, n |-> n, m |-> m, c |-> c, d |-> d]

Bodies ==
    { Body("none", <<>>, <<>>, 0, 0), Body("opaque", <<>>, <<>>, 0, 0) }
    \cup { Body("lit", <<>>, <<>>, c, 0) : c \in Lits }
    \cup { Body("ref", n, <<>>, 0, 0) : n \in IdentPool }
    \cup { Body("asg", n, <<>>, c, 0) : n \in IdentPool, c \in Lits }
    \cup { Body("call", n, <<>>, 50000, 0) : n \in IdentPool }
    \cup { Body("pair", n, <<>>, 70000, 50000) : n \in IdentPool }
    \cup { Body("bad", n, <<>>, 0, 0) : n \in IdentPool }
    \cup { Body("bad2", n, <<"s","1">>, 70000, 0) : n \in IdentPool }

WordBodies == { Body("word", w, <<>>, 0, 0) : w \in HelpWords \cup QuitWords }

BodyText(b) ==
    CASE b.k = "none"   -> <<>>
      [] b.k = "opaque" -> <<"~">>
      [] b.k = "lit"    -> LitText(b.c)
      [] b.k = "ref"    -> b.n
      [] b.k = "word"   -> b.n
      [] b.k = "asg"    -> b.n \o <<"=">> \o LitText(b.c)
      [] b.k = "call"   -> b.n \o <<"(">> \o LitText(b.c) \o <<")">>
      [] b.k = "pair"   -> LitText(b.c) \o <<",">> \o b.n \o <<"=">> \o LitText(b.d)
      [] b.k = "bad"    -> b.n \o <<"+">>
      [] b.k = "bad2"   -> b.n \o <<"=">> \o LitText(b.c) \o <<",">> \o b.m \o <<"+">>

\* a line or argument: the text of an expression between blanks
Line(lead, trail, b) == [lead |-> lead, trail |-> trail, body |-> b]
LineText(l) == Blanks(l.lead) \o BodyText(l.body) \o Blanks(l.trail)

\* lines without text: the empty line and lines of blanks only
BlankLines == { Line(n, 0, Body("none", <<>>, <<>>, 0, 0)) : n \in 0..MaxBlanks }

\* lines holding an expression
ExprLines == { Line(0, 0, b) : b \in Bodies \ {Body("none", <<>>, <<>>, 0, 0)} }

\* lines holding a help or quit word, or an expression, between blanks
PaddedLines ==
    { Line(n, n, b) : n \in 0..MaxBlanks,
                      b \in WordBodies \cup {Body("lit", <<>>, <<>>, 50000, 0)} }

\* the expressions a stream delivers
StreamBodies ==
    { Body("lit", <<>>, <<>>, 50000, 0),
      Body("asg", <<"a">>, <<>>, 70000, 0),
      Body("bad", <<"s","1">>, <<>>, 0, 0),
      Body("opaque", <<>>, <<>>, 0, 0) }

\* the expressions typed at the prompt
TtyBodies ==
    { Body("asg", <<"a">>, <<>>, 50000, 0),
      Body("bad", <<"s","1">>, <<>>, 0, 0),
      Body("bad2", <<"a">>, <<"s","1">>, 70000, 0),
      Body("call", <<"e","x","p","1","0">>, <<>>, 50000, 0) }

\* what a text is to the readers: "empty", "blank" (blanks only) or "text"
LineClass(s) ==
    IF Len(s) = 0 THEN "empty"
    ELSE IF \A j \in 1..Len(s) : s[j] = " " THEN "blank"
    ELSE "text"

\* what argv[i], std::getline and readline can deliver
ArgInputs == ExprLines \cup BlankLines
StreamInputs == { Line(0, 0, b) : b \in StreamBodies } \cup BlankLines
TtyInputs == { Line(0, 0, b) : b \in TtyBodies } \cup BlankLines \cup PaddedLines

(* --------------------------- variable store --------------------------- *)

\* names of added_vars, in creation order
VarNames(store) == [j \in 1..Len(store) |-> store[j].name]

VarNameSet(store) == { store[j].name : j \in 1..Len(store) }

\* cells kept by value in the vector: growing it moves them, and the values
\* written through the engine's pointers are lost
add_var_moved(store, name) ==
    Append([j \in 1..Len(store) |-> [name |-> store[j].name, val |-> 0]],
           [name |-> name, val |-> 0])

\* add_var: a new cell holding 0.0 is appended, whatever the name
add_var(store, name) == Append(store, [name |-> name, val |-> 0])

(* ------------------- the expression engine (mu::Parser) --------------- *)

\* the resolution of an engine in which "_" was never defined
Resolve_unreserved(name, store) ==
    IF name \in ParserFuns THEN "fun"
    ELSE IF name \in ParserConsts THEN "const"
    ELSE IF name \in VarNameSet(store) THEN "var"
    ELSE "undef"

\* How the engine's token reader resolves an identifier: functions first,
\* then constants, then defined variables; what is left goes to the
\* variable factory.
Resolve(name, store) ==
    IF name \in ParserFuns THEN "fun"
    ELSE IF name \in ParserConsts THEN "const"
    ELSE IF name = LastResultName \/ name \in VarNameSet(store) THEN "var"
    ELSE "undef"

\* the factory is asked for a cell at every mention of a name
Touch_always(store, name) == add_var(store, name)

\* The engine meets identifier name: an undefined one is handed to the
\* factory set by SetVarFactory and is a defined variable from then on.
Touch(store, name) ==
    IF Resolve(name, store) = "undef" THEN add_var(store, name) ELSE store

\* the cell of variable name in added_vars
CellOf(name, store) == CHOOSE j \in 1..Len(store) : store[j].name = name

\* the value the engine reads for a constant or a variable
ValueOf(name, store, last) ==
    IF name \in ParserConsts THEN ConstValue(name)
    ELSE IF name = LastResultName THEN last
    ELSE store[CellOf(name, store)].val

\* the engine executes name = c: the cell behind the name is written
\* ("_" is bound to last_result, every other variable to its added_vars cell)
StoreVars(name, c, store) ==
    IF name = LastResultName THEN store
    ELSE [store EXCEPT ![CellOf(name, store)].val = c]

StoreLast(name, c, last) == IF name = LastResultName THEN c ELSE last

\* error classifications (mu::EErrorCodes) the model distinguishes
ErrorCodes == {"ecUNEXPECTED_EOF", "ecUNEXPECTED_OPERATOR", "ecUNEXPECTED_PARENS"}

\* token texts the engine attaches to an error
Tokens == { <<>>, <<"(">>, <<"a"," ">> }

NoError == [code |-> "none", pos |-> 0, token |-> <<>>]

\* parser.Eval(n) returned n results
Returned(results, store, last) ==
    { [ok |-> TRUE, results |-> results, store |-> store, last |-> last,
       err |-> NoError] }

\* parser.Eval(n) threw: the error carries a classification from codes, a
\* raw offset from offsets and a token; no assignment of the expression was
\* executed
Threw(codes, offsets, store, last) ==
    { [ok |-> FALSE, results |-> <<>>, store |-> store, last |-> last,
       err |-> [code |-> c, pos |-> q, token |-> t]] :
         c \in codes, q \in offsets, t \in Tokens }

\* values a function call or an unmodelled expression may produce
Values == {0} \cup Lits

\* the offset of the character that follows the first name of the line, and
\* the offset of the end of the line
AfterName(l) == l.lead + Len(l.body.n)
AtEnd(l) == Len(LineText(l))

\* parser.SetExpr(expr); parser.Eval(n): every outcome the engine can
\* produce for the line l in the store (store, last).  The whole text is
\* tokenised before anything is computed, so variables named before a
\* syntax error are created and no assignment of a failing text is executed.
\* An error is raised at the offset where the text stops being an
\* expression; for the texts not modelled any error or result is possible.
Eval(l, store, last) ==
    LET b == l.body IN
    CASE b.k = "none" ->
           Threw({"ecUNEXPECTED_EOF"}, {AtEnd(l)}, store, last)
      [] b.k = "lit" ->
           Returned(<<b.c>>, store, last)
      [] b.k = "ref" ->
           IF Resolve(b.n, store) = "fun"
           THEN Threw({"ecUNEXPECTED_EOF"}, {AtEnd(l)}, store, last)
           ELSE Returned(<<ValueOf(b.n, Touch(store, b.n), last)>>,
                         Touch(store, b.n), last)
      [] b.k = "asg" ->
           IF Resolve(b.n, store) \in {"fun", "const"}
           THEN Threw({"ecUNEXPECTED_OPERATOR"}, {AfterName(l)}, store, last)
           ELSE Returned(<<b.c>>, StoreVars(b.n, b.c, Touch(store, b.n)),
                         StoreLast(b.n, b.c, last))
      [] b.k = "call" ->
           IF Resolve(b.n, store) = "fun"
           THEN UNION { Returned(<<v>>, store, last) : v \in Values }
           ELSE IF Resolve(b.n, store) = "const"
           THEN Threw({"ecUNEXPECTED_PARENS"}, {AfterName(l)}, store, last)
           ELSE Threw({"ecUNEXPECTED_PARENS"}, {AfterName(l)},
                      Touch(store, b.n), last)
      [] b.k = "pair" ->
           IF Resolve(b.n, store) \in {"fun", "const"}
           THEN Threw({"ecUNEXPECTED_OPERATOR"}, {AfterName(l) + 2}, store, last)
           ELSE Returned(<<b.c, b.d>>, StoreVars(b.n, b.d, Touch(store, b.n)),
                         StoreLast(b.n, b.d, last))
      [] b.k = "bad" ->
           IF Resolve(b.n, store) = "fun"
           THEN Threw({"ecUNEXPECTED_OPERATOR"}, {AfterName(l)}, store, last)
           ELSE Threw({"ecUNEXPECTED_EOF"}, {AtEnd(l)}, Touch(store, b.n), last)
      [] b.k = "bad2" ->
           IF Resolve(b.n, store) \in {"fun", "const"}
           THEN Threw({"ecUNEXPECTED_OPERATOR"}, {AfterName(l)}, store, last)
           ELSE IF Resolve(b.m, Touch(store, b.n)) = "fun"
           THEN Threw({"ecUNEXPECTED_OPERATOR"}, {AtEnd(l) - 1},
                      Touch(store, b.n), last)
           ELSE Threw({"ecUNEXPECTED_EOF"}, {AtEnd(l)},
                      Touch(Touch(store, b.n), b.m), last)
      [] OTHER ->
           Threw(ErrorCodes, 0..MaxPos, store, last)
           \cup Returned(<<>>, store, last)
           \cup UNION { Returned(<<v>>, store, last) : v \in Values }
           \cup UNION { Returned(<<v, 0>>, store, last) : v \in Values }

(* --------------------------- eval_and_print --------------------------- *)

\* the position fix-up without the exception for the end of input
FixPos_always(code, pos) ==
    LET p1 == pos + 1
    IN  IF p1 = 0 THEN 1 ELSE p1

\* "Let positions start at 1 and fix position reported for EOF"
FixPos(code, pos) ==
    LET p1 == IF code # "ecUNEXPECTED_EOF" THEN pos + 1 ELSE pos
    IN  IF p1 = 0 THEN 1 ELSE p1

\* "Remove excess blank from token": token.back() == ' ' ? token.pop_back().
\* back() of an empty string is undefined: the build either reads a byte
\* that is no blank and leaves the token alone, or stops the process.
FixToken(token) ==
    IF token = <<>>
    THEN { [aborted |-> FALSE, token |-> <<>>],
           [aborted |-> TRUE,  token |-> <<>>] }
    ELSE { [aborted |-> FALSE,
            token |-> IF token[Len(token)] = " "
                      THEN SubSeq(token, 1, Len(token) - 1)
                      ELSE token] }

\* the marker line: blanks(fixed_err.GetPos() - 1, ' ') followed by "^"
Marker(col) == Blanks(col - 1) \o <<"^">>

NoReport ==
    [prefix |-> <<>>, code |-> "none", col |-> 0, token |-> <<>>,
     expr |-> <<>>, marker |-> <<>>]

\* the three lines written to stderr for a fixed error
Report(prefix, code, col, token, expr) ==
    [prefix |-> prefix, code |-> code, col |-> col, token |-> token,
     expr |-> expr, marker |-> Marker(col)]

\* "Expression <i>" and "Line <n>": the word and the number
Prefix(word, n) == <<word, n>>

\* the last result of the line instead of the first
SetLastResult_final(results, last) ==
    IF Len(results) > 0 THEN results[Len(results)] ELSE last

\* "if (n > 0) *last_result = results[0]": the cell after a successful
\* evaluation, which left it holding last and returned results
SetLastResult(results, last) ==
    IF Len(results) > 0 THEN results[1] ELSE last

\* eval_and_print(parser, &last_result, expr, errmsg_prefix): every outcome
\* for the line l in the store (store, last)
eval_and_print(store, last, l, prefix) ==
    UNION {
      IF o.ok
      THEN { [retval   |-> 0,
              store    |-> o.store,
              last     |-> SetLastResult(o.results, o.last),
              ok       |-> TRUE,
              results  |-> o.results,
              err      |-> o.err,
              report   |-> NoReport,
              aborted  |-> FALSE] }
      ELSE { [retval   |-> 1,
              store    |-> o.store,
              last     |-> o.last,
              ok       |-> FALSE,
              results  |-> <<>>,
              err      |-> o.err,
              report   |-> IF f.aborted THEN NoReport
                           ELSE Report(prefix, o.err.code,
                                       FixPos(o.err.code, o.err.pos),
                                       f.token, LineText(l)),
              aborted  |-> f.aborted] : f \in FixToken(o.err.token) }
      : o \in Eval(l, store, last) }

(* ------------------------ completion_generator ------------------------ *)

\* texts readline asks completions for
CompletionTexts ==
    { <<>>, <<"s">>, <<"S">>, <<"e">>, <<"p","i","e">> }

\* One of the three while loops: starting at the 0-based index from, the
\* first entry of table that matches; the index ends one past the match, or
\* at the end of the table when nothing matches (name is then NULL).
Scan(table, from, text, len) ==
    LET Hit(j) == StrncmpEq(table[j + 1], text, len)
        range == from..(Len(table) - 1)
    IN  IF \E j \in range : Hit(j)
        THEN LET j == CHOOSE h \in range :
                          Hit(h) /\ \A g \in from..(h - 1) : ~Hit(g)
             IN  [found |-> TRUE, name |-> table[j + 1], index |-> j + 1]
        ELSE [found |-> FALSE, name |-> <<>>,
              index |-> IF from > Len(table) THEN from ELSE Len(table)]

\* the state-0 block without the reset of functions_index
ResetStatics_keep(st, text) ==
    [st EXCEPT !.constants_index = 0, !.variables_index = 0, !.len = Len(text)]

\* "if (state == 0) { functions_index = 0; constants_index = 0;
\* variables_index = 0; len = strlen(text); }": the statics after the block,
\* whatever they were
ResetStatics(st, text) ==
    [functions_index |-> 0, constants_index |-> 0, variables_index |-> 0,
     len |-> Len(text)]

\* the generator without its third loop: variables are never offered
completion_generator_static(st, text, store) ==
    LET f == Scan(function_names, st.functions_index, text, st.len)
        c == Scan(constant_names, st.constants_index, text, st.len)
    IN  IF f.found
        THEN [found |-> TRUE, name |-> f.name, append |-> "(",
              st |-> [st EXCEPT !.functions_index = f.index]]
        ELSE IF c.found
        THEN [found |-> TRUE, name |-> c.name, append |-> " ",
              st |-> [st EXCEPT !.functions_index = f.index,
                                !.constants_index = c.index]]
        ELSE [found |-> FALSE, name |-> <<>>, append |-> "",
              st |-> [st EXCEPT !.functions_index = f.index,
                                !.constants_index = c.index]]

\* completion_generator(text, state) after the "if (state == 0)" block:
\* st holds the four statics; the result is the returned name (found is
\* FALSE for NULL), rl_completion_append_character and the statics.
completion_generator(st, text, store) ==
    LET f == Scan(function_names, st.functions_index, text, st.len)
        c == Scan(constant_names, st.constants_index, text, st.len)
        v == Scan(VarNames(store), st.variables_index, text, st.len)
    IN  IF f.found
        THEN [found |-> TRUE, name |-> f.name, append |-> "(",
              st |-> [st EXCEPT !.functions_index = f.index]]
        ELSE IF c.found
        THEN [found |-> TRUE, name |-> c.name, append |-> " ",
              st |-> [st EXCEPT !.functions_index = f.index,
                                !.constants_index = c.index]]
        ELSE IF v.found
        THEN [found |-> TRUE, name |-> v.name, append |-> " ",
              st |-> [st EXCEPT !.functions_index = f.index,
                                !.constants_index = c.index,
                                !.variables_index = v.index]]
        ELSE [found |-> FALSE, name |-> <<>>, append |-> "",
              st |-> [st EXCEPT !.functions_index = f.index,
                                !.constants_index = c.index,
                                !.variables_index = v.index]]

(* ------------------------------- state -------------------------------- *)

VARIABLES
    mode,           \* "flags", "args", "stream" or "tty": what main() runs
    pc,             \* "arg_loop", "stream_loop", "prompt", "done", "aborted"
    argc,           \* main's argc
    i,              \* the argument loop's index
    linecounter,    \* the stream loop's line counter
    cin_ok,         \* the state of std::cin as "while (std::cin)" sees it
    retval,         \* main's retval
    exit_status,    \* the process exit status, -1 while the process runs
    added_vars,     \* the created variables, in creation order
    last_result,    \* the cell of the variable "_"
    comp,           \* the statics of completion_generator
    comp_text,      \* the text of the completion request in progress
    comp_busy,      \* a completion request has not returned NULL yet
    matches,        \* the candidates of the current completion request
    comp_calls,     \* calls of the generator in the current completion request
    comp_abandoned, \* the running request began while the one before it was
                    \* unfinished
    history,        \* readline's in-memory history
    hist_loaded,    \* number of read_history calls
    hist_saved,     \* number of write_history calls
    quit_via_control_d,
    notice,         \* "^D" was printed
    bufs,           \* the buffers readline returned: how often each was
                    \* freed, and whether it was read after a free
    reads,          \* the input units read so far: the class of each text
    log,            \* the evaluations so far: label, unit and outcome
    last_eval       \* the last call of eval_and_print: its line, what it
                    \* printed to stdout (results) and to stderr (report)

vars == << mode, pc, argc, i, linecounter, cin_ok, retval, exit_status,
           added_vars, last_result,
           comp, comp_text, comp_busy, matches, comp_calls, comp_abandoned,
           history, hist_loaded, hist_saved, quit_via_control_d, notice,
           bufs, reads, log, last_eval >>

\* exit status of a process stopped by abort()
AbortStatus == 134

NoEval ==
    [line |-> Line(0, 0, Body("none", <<>>, <<>>, 0, 0)), ok |-> TRUE,
     results |-> <<>>, err |-> NoError, report |-> NoReport,
     aborted |-> FALSE, n |-> 0]

\* the state main() has built when it reaches "Evaluate command line
\* expression(s)", or when it returned for --version or --help
Init ==
    /\ mode \in {"flags", "args", "stream", "tty"}
    /\ argc \in (CASE mode = "flags" -> {2}
                   [] mode = "args" -> 2..(MaxArgs + 1)
                   [] OTHER -> {1})
    /\ pc = (CASE mode = "flags" -> "done"
               [] mode = "args" -> "arg_loop"
               [] mode = "stream" -> "stream_loop"
               [] OTHER -> "prompt")
    /\ i = 1
    /\ linecounter = 1
    /\ cin_ok = TRUE
    /\ retval = 0
    /\ exit_status = IF mode = "flags" THEN 0 ELSE -1
    /\ added_vars = <<>>
    /\ last_result = 0
    /\ comp = [functions_index |-> 0, constants_index |-> 0,
               variables_index |-> 0, len |-> 0]
    /\ comp_text = <<>>
    /\ comp_busy = FALSE
    /\ matches = <<>>
    /\ comp_calls = 0
    /\ comp_abandoned = FALSE
    /\ history = <<>>
    /\ hist_loaded = IF mode = "tty" THEN 1 ELSE 0
    /\ hist_saved = 0
    /\ quit_via_control_d = TRUE
    /\ notice = FALSE
    /\ bufs = <<>>
    /\ reads = <<>>
    /\ log = <<>>
    /\ last_eval = NoEval

\* the effect of one call of eval_and_print with outcome o on the store,
\* the output streams and the record of evaluations
Evaluated(l, prefix, o) ==
    /\ added_vars' = o.store
    /\ last_result' = o.last
    /\ log' = Append(log, [label |-> prefix, unit |-> Len(reads) + 1,
                           ok |-> o.ok, reported |-> ~o.ok /\ ~o.aborted])
    /\ last_eval' = [line |-> l, ok |-> o.ok, results |-> o.results,
                     err |-> o.err, report |-> o.report,
                     aborted |-> o.aborted, n |-> Len(log) + 1]

NotEvaluated ==
    UNCHANGED << added_vars, last_result, log, last_eval >>

CompUnchanged ==
    UNCHANGED << comp, comp_text, comp_busy, matches, comp_calls, comp_abandoned >>
TtyUnchanged ==
    UNCHANGED << history, hist_loaded, hist_saved, quit_via_control_d, notice,
                 bufs >>

(* --------------------------- argument mode ---------------------------- *)

\* "retval = eval_and_print(...)" in the argument loop: retval after the
\* call returned r
ArgRetval(old, r) == r

\* one pass of "for (int i = 1; i < argc; i++)"
ArgStep ==
    /\ pc = "arg_loop"
    /\ i < argc
    /\ \E l \in ArgInputs :
         \E o \in eval_and_print(added_vars, last_result, l, Prefix("Expression", i)) :
            /\ Evaluated(l, Prefix("Expression", i), o)
            /\ reads' = Append(reads, LineClass(LineText(l)))
            /\ IF o.aborted
               THEN /\ pc' = "aborted"
                    /\ exit_status' = AbortStatus
                    /\ UNCHANGED << retval, i >>
               ELSE /\ retval' = ArgRetval(retval, o.retval)
                    /\ i' = i + 1
                    /\ UNCHANGED << pc, exit_status >>
    /\ UNCHANGED << mode, argc, linecounter, cin_ok >>
    /\ CompUnchanged
    /\ TtyUnchanged

\* the loop is over: "return retval"
ArgReturn ==
    /\ pc = "arg_loop"
    /\ i >= argc
    /\ pc' = "done"
    /\ exit_status' = retval
    /\ UNCHANGED << mode, argc, i, linecounter, cin_ok, retval, reads >>
    /\ NotEvaluated
    /\ CompUnchanged
    /\ TtyUnchanged

(* ----------------------------- stream mode ---------------------------- *)

\* a failure, once seen, is kept
StreamRetval_sticky(old, r) == IF old # 0 THEN old ELSE r

\* "retval = eval_and_print(...)" in the stream loop: retval after the call
\* returned r
StreamRetval(old, r) == r

\* one pass of the do-while loop in which std::getline delivers a line
StreamLine ==
    /\ pc = "stream_loop"
    /\ Len(reads) < MaxLines
    /\ \E l \in StreamInputs :
         /\ reads' = Append(reads, LineClass(LineText(l)))
         /\ IF Len(LineText(l)) # 0
            THEN \E o \in eval_and_print(added_vars, last_result, l,
                                         Prefix("Line", linecounter)) :
                   /\ Evaluated(l, Prefix("Line", linecounter), o)
                   /\ IF o.aborted
                      THEN /\ pc' = "aborted"
                           /\ exit_status' = AbortStatus
                           /\ UNCHANGED << retval, linecounter >>
                      ELSE /\ retval' = StreamRetval(retval, o.retval)
                           /\ linecounter' = linecounter + 1
                           /\ UNCHANGED << pc, exit_status >>
            ELSE /\ NotEvaluated
                 /\ linecounter' = linecounter + 1
                 /\ UNCHANGED << pc, exit_status, retval >>
    /\ UNCHANGED << mode, argc, i, cin_ok >>
    /\ CompUnchanged
    /\ TtyUnchanged

\* the pass in which std::getline fails at the end of the input: nothing is
\* evaluated, the loop ends and main returns retval
StreamEnd ==
    /\ pc = "stream_loop"
    /\ cin_ok' = FALSE
    /\ linecounter' = linecounter + 1
    /\ pc' = "done"
    /\ exit_status' = retval
    /\ UNCHANGED << mode, argc, i, retval, reads >>
    /\ NotEvaluated
    /\ CompUnchanged
    /\ TtyUnchanged

(* -------------------------- interactive mode -------------------------- *)

\* While a line is typed (the session has at most MaxLines of them),
\* readline calls the generator with state 0 for the text to complete; it
\* does so for every new request, also when it gave up the previous one (on
\* a signal) before the generator had returned NULL
CompleteFirst ==
    /\ pc = "prompt"
    /\ Len(reads) < MaxLines
    /\ \E text \in CompletionTexts :
         LET r == completion_generator(ResetStatics(comp, text), text, added_vars)
         IN  /\ comp' = r.st
             /\ comp_text' = text
             /\ comp_calls' = 1
             /\ comp_abandoned' = (comp_busy /\ r.found)
             /\ comp_busy' = r.found
             /\ matches' = IF r.found
                           THEN << [name |-> r.name, append |-> r.append] >>
                           ELSE <<>>
    /\ UNCHANGED << mode, pc, argc, i, linecounter, cin_ok, retval,
                    exit_status, reads >>
    /\ NotEvaluated
    /\ TtyUnchanged

\* readline calls the generator again, with a state other than 0
CompleteNext ==
    /\ pc = "prompt"
    /\ comp_busy
    /\ LET r == completion_generator(comp, comp_text, added_vars)
       IN  /\ comp' = r.st
           /\ comp_calls' = comp_calls + 1
           /\ comp_abandoned' = (comp_abandoned /\ r.found)
           /\ comp_busy' = r.found
           /\ matches' = IF r.found
                         THEN Append(matches, [name |-> r.name, append |-> r.append])
                         ELSE matches
    /\ UNCHANGED << mode, pc, argc, i, linecounter, cin_ok, retval,
                    exit_status, reads, comp_text >>
    /\ NotEvaluated
    /\ TtyUnchanged

\* a buffer fresh from readline
NewBuf == [freed |-> 0, stale |-> FALSE]

\* what the statements of ops, in their order, do to the buffer buf: "free"
\* releases it, "read" reads its text (which is stale after a release)
Use(buf, ops) ==
    [freed |-> buf.freed + Cardinality({ j \in 1..Len(ops) : ops[j] = "free" }),
     stale |-> \/ buf.stale
               \/ \E j \in 1..Len(ops) :
                     /\ ops[j] = "read"
                     /\ \/ buf.freed > 0
                        \/ \E k \in 1..(j - 1) : ops[k] = "free"]

\* what one pass of the loop body does with line, by the branch taken:
\* "string_line = line" reads it, add_history(line) reads it unless the line
\* is blank, eval_and_print(..., line) reads it, and "free(line)" at the end
\* of the body is skipped by the break of a quit word and never reached
\* when the process stops in eval_and_print
LoopOps(branch) ==
    CASE branch = "blank"   -> << "read", "free" >>
      [] branch = "help"    -> << "read", "read", "free" >>
      [] branch = "quit"    -> << "read", "read" >>
      [] branch = "eval"    -> << "read", "read", "read", "free" >>
      [] branch = "stopped" -> << "read", "read", "read" >>

\* the free after the loop frees the last buffer whatever line is
FreeAfterLoop_last(b, line_is_null) ==
    IF b = <<>> THEN b ELSE [b EXCEPT ![Len(b)] = Use(@, << "free" >>)]

\* "free(line)" after the loop: line is NULL when readline ended the loop
\* (free(NULL) does nothing) and the last buffer when a quit word did
FreeAfterLoop(b, line_is_null) ==
    IF line_is_null THEN b ELSE [b EXCEPT ![Len(b)] = Use(@, << "free" >>)]

\* the history is written only when a quit word ended the loop
SaveHistory_quit(saved, via_control_d) ==
    IF via_control_d THEN saved ELSE saved + 1

\* "write_history(history_file().c_str())" after the loop, whichever way the
\* loop ended: the number of writes so far
SaveHistory(saved, via_control_d) == saved + 1

\* the history gets only the lines that went on to the evaluator
RecordLine_evaluated(hist, string_line, trimmed_line) ==
    IF trimmed_line # <<>> /\ trimmed_line \notin HelpWords \cup QuitWords
    THEN Append(hist, string_line)
    ELSE hist

\* "if (!trimmed_line.empty()) add_history(line)"
RecordLine(hist, string_line, trimmed_line) ==
    IF trimmed_line # <<>>
    THEN Append(hist, string_line)
    ELSE hist

\* readline returns a line: one pass of the while loop, or, for a quit
\* word, the break and what follows the loop
TtyLine ==
    /\ pc = "prompt"
    /\ ~comp_busy
    /\ Len(reads) < MaxLines
    /\ \E l \in TtyInputs :
         LET string_line == LineText(l)
             trimmed_line == Trim(string_line)
         IN  /\ reads' = Append(reads, LineClass(string_line))
             /\ history' = RecordLine(history, string_line, trimmed_line)
             /\ IF trimmed_line = <<>>
                THEN /\ NotEvaluated
                     /\ bufs' = Append(bufs, Use(NewBuf, LoopOps("blank")))
                     /\ UNCHANGED << pc, exit_status, retval, hist_saved,
                                     quit_via_control_d >>
                ELSE IF trimmed_line \in HelpWords
                THEN /\ NotEvaluated
                     /\ bufs' = Append(bufs, Use(NewBuf, LoopOps("help")))
                     /\ UNCHANGED << pc, exit_status, retval, hist_saved,
                                     quit_via_control_d >>
                ELSE IF trimmed_line \in QuitWords
                THEN /\ NotEvaluated
                     /\ bufs' = FreeAfterLoop(
                                   Append(bufs, Use(NewBuf, LoopOps("quit"))),
                                   FALSE)
                     /\ quit_via_control_d' = FALSE
                     /\ hist_saved' = SaveHistory(hist_saved, FALSE)
                     /\ pc' = "done"
                     /\ exit_status' = retval
                     /\ UNCHANGED retval
                ELSE \E o \in eval_and_print(added_vars, last_result, l, <<>>) :
                       /\ Evaluated(l, <<>>, o)
                       /\ UNCHANGED << hist_saved, quit_via_control_d >>
                       /\ IF o.aborted
                          THEN /\ pc' = "aborted"
                               /\ exit_status' = AbortStatus
                               /\ bufs' = Append(bufs, Use(NewBuf, LoopOps("stopped")))
                               /\ UNCHANGED retval
                          ELSE /\ retval' = o.retval
                               /\ bufs' = Append(bufs, Use(NewBuf, LoopOps("eval")))
                               /\ UNCHANGED << pc, exit_status >>
    /\ UNCHANGED << mode, argc, i, linecounter, cin_ok, hist_loaded, notice >>
    /\ CompUnchanged

\* readline returns NULL at the end of the input: the loop ends, "^D" is
\* printed, the history is written and main returns retval
TtyEnd ==
    /\ pc = "prompt"
    /\ ~comp_busy
    /\ notice' = quit_via_control_d
    /\ hist_saved' = SaveHistory(hist_saved, quit_via_control_d)
    /\ bufs' = FreeAfterLoop(bufs, TRUE)
    /\ pc' = "done"
    /\ exit_status' = retval
    /\ UNCHANGED << mode, argc, i, linecounter, cin_ok, retval, reads,
                    history, hist_loaded, quit_via_control_d >>
    /\ NotEvaluated
    /\ CompUnchanged

(* --------------------------- specification ---------------------------- *)

Next ==
    \/ ArgStep
    \/ ArgReturn
    \/ StreamLine
    \/ StreamEnd
    \/ CompleteFirst
    \/ CompleteNext
    \/ TtyLine
    \/ TtyEnd

Spec == Init /\ [][Next]_vars

(* ------------------------------ claims -------------------------------- *)

\* the process has ended
Terminated == pc \in {"done", "aborted"}

\* the step called eval_and_print
EvalStep == last_eval'.n # last_eval.n

\* C1: in argument mode the exit status is 0 only if every argument
\* evaluated successfully (logical OR over all arguments).
C1_ExitStatusIsOrOverArguments ==
    (mode = "args" /\ Terminated) =>
        (exit_status = 0 <=> \A j \in 1..Len(log) : log[j].ok)

\* C2: after every successful evaluation with at least one result, "_" holds
\* the first result, also when the line assigns to "_" or has several
\* results; evaluating "_" alone yields the value held; an evaluation with
\* no result or a failed one leaves "_" unchanged.
C2_LastResultIsFirstResult ==
    [][ EvalStep =>
          /\ (last_eval'.ok /\ Len(last_eval'.results) > 0)
                => last_result' = last_eval'.results[1]
          /\ (~last_eval'.ok \/ Len(last_eval'.results) = 0)
                => last_result' = last_result
          /\ (last_eval'.line.body = Body("ref", <<"_">>, <<>>, 0, 0))
                => (last_eval'.ok /\ last_eval'.results = << last_result >>)
      ]_vars

\* a line that assigns to "_" and has two results left "_" at the first one
C2_Witness ==
    /\ last_eval.ok
    /\ last_eval.line.body = Body("pair", <<"_">>, <<>>, 70000, 50000)
    /\ last_eval.results = << 70000, 50000 >>
    /\ last_result = 70000

\* C3: a failed evaluation changes the value of no variable that existed
\* before and leaves the last-result cell alone; all it may do is add
\* variables, holding 0.0, that the failing text names.
C3_FailureKeepsPriorState ==
    [][ (EvalStep /\ ~last_eval'.ok) =>
          /\ last_result' = last_result
          /\ Len(added_vars') >= Len(added_vars)
          /\ \A j \in 1..Len(added_vars) : added_vars'[j] = added_vars[j]
          /\ \A j \in (Len(added_vars) + 1)..Len(added_vars') :
                /\ added_vars'[j].val = 0
                /\ added_vars'[j].name \in
                      {last_eval'.line.body.n, last_eval'.line.body.m}
      ]_vars

\* "a=7,s1+" failed after "a" had been set to 5.0: a is still 5.0 and the
\* new variable s1 holds 0.0
C3_Witness ==
    /\ ~last_eval.ok
    /\ last_eval.line.body = Body("bad2", <<"a">>, <<"s","1">>, 70000, 0)
    /\ added_vars = << [name |-> <<"a">>, val |-> 50000],
                       [name |-> <<"s","1">>, val |-> 0] >>

\* the identifiers the text of b holds
Mentions(b) == {b.n, b.m} \ {<<>>}

\* the identifiers of b the engine reads before it stops: all of them,
\* except that the second name of "n=c,m+" is never read when n cannot be
\* assigned to
ReadNames(b, store) ==
    IF b.k = "bad2" /\ Resolve(b.n, store) \in {"fun", "const"}
    THEN {b.n}
    ELSE Mentions(b)

\* text is a literal prefix of name
IsPrefix(text, name) ==
    /\ Len(text) <= Len(name)
    /\ SubSeq(name, 1, Len(text)) = text

\* the step ended a completion request (the generator returned NULL)
RequestEnded ==
    /\ ~comp_busy'
    /\ comp_busy \/ comp' # comp \/ comp_text' # comp_text \/ matches' # matches

\* a name of the variable store is never removed or renamed
VariablesPersist ==
    /\ Len(added_vars') >= Len(added_vars)
    /\ \A j \in 1..Len(added_vars) : added_vars'[j].name = added_vars[j].name

\* a completion request that ended offered every variable its text is a
\* prefix of
VariablesOffered ==
    RequestEnded =>
        \A j \in 1..Len(added_vars') :
            IsPrefix(comp_text', added_vars'[j].name) =>
                \E k \in 1..Len(matches') :
                    matches'[k] = [name |-> added_vars'[j].name, append |-> " "]

\* the names in names that were unused before the evaluation are variables
\* after it, holding 0.0 unless the evaluation went on to assign to them
CreatedByNaming(names) ==
    EvalStep =>
        \A q \in names :
            Resolve(q, added_vars) = "undef" =>
                /\ q \in VarNameSet(added_vars')
                /\ (~last_eval'.ok \/ last_eval'.line.body.k = "ref")
                      => added_vars'[CellOf(q, added_vars')].val = 0

\* C4 as stated: every previously unused identifier an evaluation mentions
\* is a variable afterwards (holding 0.0) even when the evaluation fails, is
\* offered by every later completion request it matches, and is never
\* removed.
C4_EveryMentionedNameIsCreated ==
    [][ /\ CreatedByNaming(Mentions(last_eval'.line.body))
        /\ VariablesOffered
        /\ VariablesPersist ]_vars

\* C4 (amended): every previously unused identifier the engine reads before
\* it stops reading the text is a variable afterwards (holding 0.0 when the
\* evaluation fails), is offered by every later completion request it
\* matches, and is never removed.
C4_EveryReadNameIsCreated ==
    [][ /\ CreatedByNaming(ReadNames(last_eval'.line.body, added_vars))
        /\ VariablesOffered
        /\ VariablesPersist ]_vars

\* "s1+" failed at the prompt, and the completion of "s" then offered s1
C4_Witness ==
    /\ mode = "tty"
    /\ ~last_eval.ok
    /\ last_eval.line.body = Body("bad", <<"s","1">>, <<>>, 0, 0)
    /\ ~comp_busy
    /\ comp_text = <<"s">>
    /\ Len(matches) > 0
    /\ matches[Len(matches)] = [name |-> <<"s","1">>, append |-> " "]

\* the entries of a table
Range(table) == { table[j] : j \in 1..Len(table) }

\* C5: no created variable bears the name of a constant or of a function of
\* the tables used for completion and help.
C5_NoVariableNamedLikeConstantOrFunction ==
    \A j \in 1..Len(added_vars) :
        added_vars[j].name \notin Range(constant_names) \cup Range(function_names)

\* C6: in stream mode the exit status is that of the last line evaluated:
\* non-zero iff that evaluation failed, 0 if it succeeded or if no line was
\* evaluated, whatever happened to earlier lines.
C6_StreamExitStatusIsLastOutcome ==
    (mode = "stream" /\ Terminated) =>
        (exit_status # 0 <=> (Len(log) > 0 /\ ~log[Len(log)].ok))

\* the first line failed, the second succeeded, and the exit status is 0
C6_Witness ==
    /\ mode = "stream"
    /\ pc = "done"
    /\ Len(log) = 2
    /\ ~log[1].ok
    /\ log[2].ok
    /\ exit_status = 0

\* C7: in stream mode exactly the non-blank lines are evaluated (a line that
\* is empty or holds blanks only never reaches the evaluator), and every
\* evaluated line is labelled "Line n" with n its 1-based position among all
\* lines read.
C7_ExactlyNonBlankLinesEvaluated ==
    mode = "stream" =>
        /\ \A u \in 1..Len(reads) :
              (\E j \in 1..Len(log) : log[j].unit = u) <=> reads[u] = "text"
        /\ \A j \in 1..Len(log) : log[j].label = Prefix("Line", log[j].unit)

\* C8: a failed evaluation is reported once and never stops the processing
\* of the input: argument mode evaluates every argument once, in order;
\* stream mode evaluates every non-blank line up to the end of the input
\* once, in order; interactive mode returns to the prompt.
C8_FailureNeverStopsProcessing ==
    /\ \A j \in 1..Len(log) : ~log[j].ok => log[j].reported
    /\ \A j \in 1..Len(log) : \A k \in 1..Len(log) :
          j < k => log[j].unit < log[k].unit
    /\ (mode = "args" /\ Terminated) =>
          /\ Len(log) = argc - 1
          /\ \A j \in 1..Len(log) : log[j].unit = j
    /\ (mode = "stream" /\ Terminated) =>
          /\ ~cin_ok
          /\ \A u \in 1..Len(reads) :
                reads[u] = "text" => \E j \in 1..Len(log) : log[j].unit = u
    /\ (mode = "tty" /\ Terminated) =>
          /\ pc = "done"
          /\ hist_saved = 1

\* the larger of two integers
Max(x, y) == IF x >= y THEN x ELSE y

\* C9: a reported engine error with raw offset p has column max(1, p + 1),
\* or max(1, p) when it is an unexpected end of input, and the marker line
\* is column - 1 blanks followed by one caret.
C9_ColumnAndMarker ==
    (~last_eval.ok /\ ~last_eval.aborted) =>
        LET p == last_eval.err.pos
            col == IF last_eval.err.code = "ecUNEXPECTED_EOF"
                   THEN Max(1, p) ELSE Max(1, p + 1)
            marker == last_eval.report.marker
        IN  /\ last_eval.report.col = col
            /\ Len(marker) = col
            /\ marker[col] = "^"
            /\ \A j \in 1..(col - 1) : marker[j] = " "

\* an end-of-input error at raw offset 3 was reported at column 3
C9_Witness ==
    /\ ~last_eval.ok
    /\ ~last_eval.aborted
    /\ last_eval.err.code = "ecUNEXPECTED_EOF"
    /\ last_eval.err.pos = 3
    /\ last_eval.report.col = 3
    /\ last_eval.report.marker = <<" ", " ", "^">>

\* the entries of table that text is a prefix of, in table order, each with
\* the character to append
Matching(table, text, append) ==
    LET hits == SelectSeq(table, LAMBDA name : IsPrefix(text, name))
    IN  [j \in 1..Len(hits) |-> [name |-> hits[j], append |-> append]]

\* C10: one completion request lists the matching function names first (to
\* be followed by "("), then the matching constant names, then the matching
\* variable names in creation order (both to be followed by " "); a name is
\* listed iff the text is a case-sensitive literal prefix of it.
C10_CandidatesInTableOrder ==
    [][ RequestEnded =>
          matches' = Matching(function_names, comp_text', "(")
                     \o Matching(constant_names, comp_text', " ")
                     \o Matching(VarNames(added_vars'), comp_text', " ")
      ]_vars

\* with the variables a and s1 created, the completion of "s" listed the
\* eight functions starting with s, from sin on, and then the variable s1
C10_Witness ==
    /\ ~comp_busy
    /\ comp_text = <<"s">>
    /\ Len(added_vars) = 2
    /\ added_vars[1].name = <<"a">>
    /\ added_vars[2].name = <<"s","1">>
    /\ Len(matches) = 9
    /\ matches[1] = [name |-> <<"s","i","n">>, append |-> "("]
    /\ matches[9] = [name |-> <<"s","1">>, append |-> " "]

\* the step read a line at the prompt
TtyRead == mode = "tty" /\ Len(reads') = Len(reads) + 1

\* C11: in interactive mode every line read that is not blank after trimming
\* is appended to the history exactly once, whether it is an expression, a
\* help word or a quit word; a blank line is never appended, and nothing
\* else changes the history.
C11_NonBlankLinesRecordedOnce ==
    [][ IF TtyRead /\ reads'[Len(reads')] = "text"
        THEN /\ Len(history') = Len(history) + 1
             /\ SubSeq(history', 1, Len(history)) = history
             /\ LineClass(history'[Len(history')]) = "text"
        ELSE history' = history
      ]_vars

\* a blank line and then " quit " were read: the history holds the quit
\* line, once, and the loop is over
C11_Witness ==
    /\ mode = "tty"
    /\ pc = "done"
    /\ reads = << "blank", "text" >>
    /\ history = << << " ", "q", "u", "i", "t", " " >> >>

\* C12: in interactive mode the exit status does not depend on whether lines
\* failed to evaluate: a session ended by a quit word or by the end of the
\* input exits with the status of a session without failures, which is 0.
C12_TtyExitStatusIgnoresFailures ==
    (mode = "tty" /\ pc = "done") => exit_status = 0

\* C13: the history file is read once, before the first prompt of
\* interactive mode, and written once, after the read loop has ended by a
\* quit word or by the end of the input; it is touched at no other point and
\* never in argument or stream mode.
C13_HistoryFileLoadedAndSavedOnce ==
    /\ hist_loaded = (IF mode = "tty" THEN 1 ELSE 0)
    /\ hist_saved = (IF mode = "tty" /\ pc = "done" THEN 1 ELSE 0)

\* the loop ended at the end of the input, after a line was read, and the
\* history was written
C13_Witness ==
    /\ mode = "tty"
    /\ pc = "done"
    /\ notice
    /\ Len(reads) > 0
    /\ hist_loaded = 1
    /\ hist_saved = 1

\* the line just read is a quit word after trimming
QuitLineRead ==
    /\ reads'[Len(reads')] = "text"
    /\ Trim(history'[Len(history')]) \in QuitWords

\* C14: the interactive loop ends exactly when a line is a quit word after
\* trimming or the input ends; "^D" is printed iff the input ended and never
\* after a quit word; a blank, help or expression line is always followed by
\* another prompt.
C14_LoopEndsOnQuitOrEndOfInput ==
    [][ mode = "tty" =>
          IF TtyRead
          THEN IF QuitLineRead
               THEN pc' = "done" /\ ~notice'
               ELSE pc' = "prompt"
          ELSE pc' # pc => (pc' = "done" /\ notice') ]_vars

\* the cells of added_vars that carry name
CellsOf(name, store) == { j \in 1..Len(store) : store[j].name = name }

\* the evaluation of this step is "n = c" for a name n that is no function,
\* no constant and not "_"
AssignsPlain ==
    /\ EvalStep
    /\ last_eval'.line.body.k = "asg"
    /\ Resolve(last_eval'.line.body.n, added_vars) \in {"var", "undef"}
    /\ last_eval'.line.body.n # LastResultName

\* the evaluation of this step is "n" alone for an existing variable n
ReadsVariable ==
    /\ EvalStep
    /\ last_eval'.line.body.k = "ref"
    /\ last_eval'.line.body.n \in VarNameSet(added_vars)

\* C15: whether or not the variable exists already, evaluating "a = c"
\* succeeds with the one result c and leaves exactly one cell named a, which
\* holds c; evaluating "a" alone succeeds with the value that cell holds.
C15_AssignmentIsIdempotent ==
    [][ /\ AssignsPlain =>
             LET n == last_eval'.line.body.n
                 c == last_eval'.line.body.c
             IN  /\ last_eval'.ok
                 /\ last_eval'.results = << c >>
                 /\ Cardinality(CellsOf(n, added_vars')) = 1
                 /\ added_vars'[CellOf(n, added_vars')].val = c
        /\ ReadsVariable =>
             LET n == last_eval'.line.body.n
             IN  /\ last_eval'.ok
                 /\ last_eval'.results = << added_vars[CellOf(n, added_vars)].val >>
                 /\ added_vars' = added_vars ]_vars

\* "a = 5" was entered twice in a row: both evaluations succeeded and there is
\* one variable a, holding 5
C15_Witness ==
    /\ mode = "tty"
    /\ Len(history) = 2
    /\ history[1] = history[2]
    /\ Len(log) = 2
    /\ log[1].ok
    /\ last_eval.n = 2
    /\ last_eval.line.body.k = "asg"
    /\ LineText(last_eval.line) = history[2]
    /\ last_eval.results = << 50000 >>
    /\ added_vars = << [name |-> <<"a">>, val |-> 50000] >>

\* the name the evaluation of this step assigned to (none if it assigned to
\* nothing)
AssignedName ==
    IF EvalStep /\ last_eval'.ok /\ last_eval'.line.body.k \in {"asg", "pair"}
    THEN {last_eval'.line.body.n}
    ELSE {}

\* C16: the names of added_vars are pairwise distinct and "_" is not among
\* them; a cell keeps its place and its name for good, and keeps its value
\* through every step that does not assign to its name, whether or not the
\* step mentions the name.
C16_OneCellPerName ==
    [][ /\ \A j, k \in 1..Len(added_vars') :
              added_vars'[j].name = added_vars'[k].name => j = k
        /\ LastResultName \notin VarNameSet(added_vars')
        /\ Len(added_vars') >= Len(added_vars)
        /\ \A j \in 1..Len(added_vars) :
              /\ added_vars'[j].name = added_vars[j].name
              /\ added_vars[j].name \notin AssignedName =>
                     added_vars'[j].val = added_vars[j].val ]_vars

\* the variable a, set to 5 by one evaluation, was mentioned again by the
\* failing text "a+": there is still one cell a and it holds 5
C16_Witness ==
    /\ last_eval.n = 2
    /\ last_eval.line.body.k = "bad"
    /\ last_eval.line.body.n = <<"a">>
    /\ ~last_eval.ok
    /\ added_vars = << [name |-> <<"a">>, val |-> 50000] >>

\* token without one trailing blank, if it has one
WithoutTrailingBlank(token) ==
    IF token # <<>> /\ token[Len(token)] = " "
    THEN SubSeq(token, 1, Len(token) - 1)
    ELSE token

\* C17: for every error the engine raises, whatever its token (the empty
\* token included), the fix-up ends and reports the token with exactly one
\* trailing blank removed if it ends in a blank, and the token as it is
\* otherwise.
C17_FixUpIsTotal ==
    (last_eval.n > 0 /\ ~last_eval.ok) =>
        /\ ~last_eval.aborted
        /\ last_eval.report.token = WithoutTrailingBlank(last_eval.err.token)

\* the step is a call of the generator with state 0
StateZeroCall ==
    /\ comp_calls' = 1
    /\ << comp, comp_text, comp_busy, matches, comp_calls, comp_abandoned >>'
         # << comp, comp_text, comp_busy, matches, comp_calls, comp_abandoned >>

\* the table entries the text of the request is a prefix of
Candidates ==
    Matching(function_names, comp_text', "(")
    \o Matching(constant_names, comp_text', " ")
    \o Matching(VarNames(added_vars'), comp_text', " ")

\* C18: a completion request takes at most (functions + constants + variables
\* + 1) calls of the generator; when it has returned NULL every matching
\* table entry was returned exactly once and nothing else was; a call with
\* state 0 returns the first candidate of its text (NULL if there is none),
\* wherever the request before it had stopped.
C18_RequestFiniteAndRestartable ==
    [][ /\ comp_calls' <= Len(function_names) + Len(constant_names)
                          + Len(added_vars') + 1
        /\ RequestEnded =>
             /\ comp_calls' = Len(matches') + 1
             /\ \A j \in 1..Len(Candidates) :
                  Cardinality({ k \in 1..Len(matches') :
                                  matches'[k] = Candidates[j] }) = 1
             /\ \A k \in 1..Len(matches') :
                  \E j \in 1..Len(Candidates) : matches'[k] = Candidates[j]
        /\ StateZeroCall =>
             IF Candidates = <<>>
             THEN ~comp_busy' /\ matches' = <<>>
             ELSE comp_busy' /\ matches' = << Candidates[1] >> ]_vars

\* the request before was given up half way; the new request for "s" has
\* made its first call and got sin, the first function that starts with s
C18_Witness ==
    /\ comp_abandoned
    /\ comp_busy
    /\ comp_calls = 1
    /\ comp_text = <<"s">>
    /\ matches = << [name |-> <<"s","i","n">>, append |-> "("] >>

\* C19: every buffer readline returned is freed at most once and never read
\* after it was freed; whenever the loop is back at the prompt, and when it
\* has ended by a quit word or the end of the input, every buffer returned
\* so far has been freed exactly once.
C19_EveryBufferFreedOnce ==
    mode = "tty" =>
        /\ Len(bufs) = Len(reads)
        /\ \A k \in 1..Len(bufs) :
             /\ bufs[k].freed <= 1
             /\ ~bufs[k].stale
             /\ pc \in {"prompt", "done"} => bufs[k].freed = 1

\* a session of an evaluated line and a quit word has ended: both buffers
\* are freed, the second one by the free after the loop
C19_Witness ==
    /\ mode = "tty"
    /\ pc = "done"
    /\ ~notice
    /\ Len(log) = 1
    /\ Len(bufs) = 2
    /\ bufs[1] = [freed |-> 1, stale |-> FALSE]
    /\ bufs[2] = [freed |-> 1, stale |-> FALSE]

====
